---- MODULE Spec2Model ----
(***************************************************************************)
(* Token representation layer (src/src/tok.rs).                            *)
(*                                                                         *)
(* Tok<T> pairs a kind of a caller-defined vocabulary T (T: TokKind +      *)
(* Display + PartialEq + Clone) with a SrcSpan of the srcspan crate.  The  *)
(* model is a client that holds tokens in two variables, calls the public  *)
(* operations of Tok on them and records what each call returned, and a    *)
(* lexer/filter pipeline that emits tokens into a stream and filters it    *)
(* on Tok::keep.                                                           *)
(***************************************************************************)
EXTENDS Integers, Sequences, FiniteSets, TLC

VARIABLES
    toks,    \* slot -> the token held there (NoTok: none)
    born,    \* slot -> the token value the slot's token came into being with
    ret,     \* the last call: operation, arguments, returned value
    stream,  \* the tokens a lexer has emitted, in order
    out      \* the filter stage's output, and whether the stage has run

vars == <<toks, born, ret, stream, out>>

-----------------------------------------------------------------------------
(* Bounds of the model                                                     *)

MaxLoc == 2        \* source locations are 1..MaxLoc
MaxRoom == 2       \* a formatter's sink accepts 0..MaxRoom more characters
MaxStream == 3     \* tokens a lexer emits before the filter stage runs

Slots == {"a", "b"}

-----------------------------------------------------------------------------
(* srcspan::{SrcLoc, SrcSpan}: opaque values of an external crate.  A span *)
(* lies over two locations and need not be well formed (start > end).      *)

SrcLoc == 1..MaxLoc

SrcSpan == [start : SrcLoc, end : SrcLoc]

SrcSpan_loc(s) == s.start

SrcSpan_eq(s1, s2) == s1 = s2

SrcSpan_clone(s) == [start |-> s.start, end |-> s.end]

NoSpan == [start |-> 0, end |-> 0]

-----------------------------------------------------------------------------
(* A vocabulary implementing TokKind + Display + PartialEq + Clone.        *)
(* Keyword("if") and Comment("// x") are the kinds of the specification's  *)
(* scenarios; Odd answers its predicates inconsistently (a keyword that is *)
(* not reserved, a comment that is also a literal and an identifier) and   *)
(* renders like Identifier("x").                                           *)

Kinds ==
    { [variant |-> "Keyword",    text |-> "if"],
      [variant |-> "Reserved",   text |-> "goto"],
      [variant |-> "Identifier", text |-> "x"],
      [variant |-> "Comment",    text |-> "// x"],
      [variant |-> "Odd",        text |-> "x"] }

NoKind == [variant |-> "none", text |-> ""]

TokKind_is_keyword(k) == k.variant \in {"Keyword", "Odd"}

TokKind_is_reserved(k) == k.variant \in {"Keyword", "Reserved"}

TokKind_is_comment(k) == k.variant \in {"Comment", "Odd"}

TokKind_is_literal(k) == k.variant \in {"Odd"}

TokKind_is_identifier(k) == k.variant \in {"Identifier", "Odd"}

TokKind_keep(k) == k.variant \in {"Keyword", "Reserved", "Identifier"}

Kind_eq(k1, k2) == k1.variant = k2.variant /\ k1.text = k2.text

Kind_clone(k) == [variant |-> k.variant, text |-> k.text]

(* std::fmt::Formatter: the text written so far and the room its sink has  *)
(* left; write_str fails, writing nothing, when the text does not fit.     *)
Formatters == [buf : {"", "<"}, room : 0..MaxRoom]

write_str(f, text) ==
    IF Len(text) <= f.room
    THEN [ok |-> TRUE, buf |-> f.buf \o text, room |-> f.room - Len(text)]
    ELSE [ok |-> FALSE, buf |-> f.buf, room |-> f.room]

Kind_fmt(k, f) == write_str(f, k.text)

-----------------------------------------------------------------------------
(* struct Tok<T> { kind: T, span: SrcSpan } and its operations             *)

Tokens == [kind : Kinds, span : SrcSpan]

NoTok == [kind |-> NoKind, span |-> NoSpan]

\* a constructor that puts the span's ends in order
Tok_new_ordering(kind, span) ==
    [kind |-> kind,
     span |-> IF span.start <= span.end THEN span
              ELSE [start |-> span.end, end |-> span.start]]

\* a constructor that refuses a span whose start lies after its end
Tok_new_validating(kind, span) ==
    IF span.start <= span.end THEN [kind |-> kind, span |-> span] ELSE NoTok

Tok_new(kind, span) == [kind |-> kind, span |-> span]

Tok_span(t) == t.span

Tok_kind(t) == t.kind

\* the span's other location
Tok_loc_end(t) == t.span.end

Tok_loc(t) == SrcSpan_loc(t.span)

Tok_is_keyword(t) == TokKind_is_keyword(t.kind)

\* forwarded to the wrong predicate of the kind
Tok_is_reserved_as_keyword(t) == TokKind_is_keyword(t.kind)

Tok_is_reserved(t) == TokKind_is_reserved(t.kind)

\* forwarded to the wrong predicate of the kind
Tok_keep_as_reserved(t) == TokKind_is_reserved(t.kind)

\* retention that also looks at the span
Tok_keep_spanned(t) == TokKind_keep(t.kind) /\ t.span.start <= t.span.end

Tok_keep(t) == TokKind_keep(t.kind)

\* rendering that marks a token whose span is not a single location
Tok_fmt_with_span(t, f) ==
    Kind_fmt([variant |-> t.kind.variant,
              text |-> IF t.span.start = t.span.end THEN t.kind.text
                       ELSE t.kind.text \o "~"], f)

Tok_fmt(t, f) == Kind_fmt(t.kind, f)

\* equality that compares the kinds alone
Tok_eq_kind_only(t1, t2) == Kind_eq(t1.kind, t2.kind)

Tok_eq(t1, t2) == Kind_eq(t1.kind, t2.kind) /\ SrcSpan_eq(t1.span, t2.span)

Tok_clone(t) == [kind |-> Kind_clone(t.kind), span |-> SrcSpan_clone(t.span)]

-----------------------------------------------------------------------------
(* The client                                                              *)

Init ==
    /\ toks = [i \in Slots |-> NoTok]
    /\ born = [i \in Slots |-> NoTok]
    /\ ret = [op |-> "idle", err |-> FALSE]
    /\ stream = <<>>
    /\ out = [filtered |-> FALSE, toks |-> <<>>]

Live(i) == toks[i] # NoTok

\* let t = Tok::new(k, s);
New(i) ==
    \E k \in Kinds, s \in SrcSpan :
        /\ toks' = [toks EXCEPT ![i] = Tok_new(k, s)]
        /\ born' = [born EXCEPT ![i] = [kind |-> k, span |-> s]]
        /\ ret' = [op |-> "new", dst |-> i, kind |-> k, span |-> s, err |-> FALSE]
        /\ UNCHANGED <<stream, out>>

\* the token held in slot i goes out of scope
Drop(i) ==
    /\ Live(i)
    /\ toks' = [toks EXCEPT ![i] = NoTok]
    /\ born' = [born EXCEPT ![i] = NoTok]
    /\ ret' = [op |-> "drop", dst |-> i, err |-> FALSE]
    /\ UNCHANGED <<stream, out>>

\* a getter that takes the span out of the token, leaving a default one
Span_taking(i) ==
    /\ Live(i)
    /\ ret' = [op |-> "span", slot |-> i, val |-> Tok_span(toks[i]), err |-> FALSE]
    /\ toks' = [toks EXCEPT ![i] = [kind |-> toks[i].kind,
                                    span |-> [start |-> 1, end |-> 1]]]
    /\ UNCHANGED <<born, stream, out>>

Span(i) ==
    /\ Live(i)
    /\ ret' = [op |-> "span", slot |-> i, val |-> Tok_span(toks[i]), err |-> FALSE]
    /\ UNCHANGED <<toks, born, stream, out>>

Kind(i) ==
    /\ Live(i)
    /\ ret' = [op |-> "kind", slot |-> i, val |-> Tok_kind(toks[i]), err |-> FALSE]
    /\ UNCHANGED <<toks, born, stream, out>>

Loc(i) ==
    /\ Live(i)
    /\ ret' = [op |-> "loc", slot |-> i, val |-> Tok_loc(toks[i]), err |-> FALSE]
    /\ UNCHANGED <<toks, born, stream, out>>

IsKeyword(i) ==
    /\ Live(i)
    /\ ret' = [op |-> "is_keyword", slot |-> i,
               val |-> Tok_is_keyword(toks[i]), err |-> FALSE]
    /\ UNCHANGED <<toks, born, stream, out>>

IsReserved(i) ==
    /\ Live(i)
    /\ ret' = [op |-> "is_reserved", slot |-> i,
               val |-> Tok_is_reserved(toks[i]), err |-> FALSE]
    /\ UNCHANGED <<toks, born, stream, out>>

Keep(i) ==
    /\ Live(i)
    /\ ret' = [op |-> "keep", slot |-> i, val |-> Tok_keep(toks[i]), err |-> FALSE]
    /\ UNCHANGED <<toks, born, stream, out>>

\* write!(f, "{}", t): Display::fmt(&t, f)
Fmt(i) ==
    /\ Live(i)
    /\ \E f \in Formatters :
          LET r == Tok_fmt(toks[i], f)
          IN  ret' = [op |-> "fmt", slot |-> i, f |-> f, val |-> r, err |-> ~r.ok]
    /\ UNCHANGED <<toks, born, stream, out>>

\* toks[i] == toks[j]
Eq(i) ==
    /\ Live(i)
    /\ \E j \in Slots :
          /\ Live(j)
          /\ ret' = [op |-> "eq", slot |-> i, other |-> j,
                     val |-> Tok_eq(toks[i], toks[j]), err |-> FALSE]
    /\ UNCHANGED <<toks, born, stream, out>>

\* a clone that moves the token out of its source
Clone_moving(i) ==
    /\ Live(i)
    /\ \E j \in Slots :
          /\ toks' = [[toks EXCEPT ![i] = NoTok] EXCEPT ![j] = Tok_clone(toks[i])]
          /\ born' = [[born EXCEPT ![i] = NoTok] EXCEPT ![j] = born[i]]
          /\ ret' = [op |-> "clone", slot |-> i, dst |-> j, err |-> FALSE]
    /\ UNCHANGED <<stream, out>>

\* toks[j] = toks[i].clone()
Clone(i) ==
    /\ Live(i)
    /\ \E j \in Slots :
          /\ toks' = [toks EXCEPT ![j] = Tok_clone(toks[i])]
          /\ born' = [born EXCEPT ![j] = born[i]]
          /\ ret' = [op |-> "clone", slot |-> i, dst |-> j, err |-> FALSE]
    /\ UNCHANGED <<stream, out>>

Next ==
    \E i \in Slots :
        \/ New(i)
        \/ Drop(i)
        \/ Span(i)
        \/ Kind(i)
        \/ Loc(i)
        \/ IsKeyword(i)
        \/ IsReserved(i)
        \/ Keep(i)
        \/ Fmt(i)
        \/ Eq(i)
        \/ Clone(i)

Spec == Init /\ [][Next]_vars

-----------------------------------------------------------------------------
(* The lexer/filter pipeline: a lexer emits tokens, then a filter stage    *)
(* retains exactly the tokens whose keep() is true.                        *)

Filter(s) == SelectSeq(s, Tok_keep)

\* the lexer recognises an atom and emits its token
Emit ==
    /\ ~out.filtered
    /\ Len(stream) < MaxStream
    /\ \E k \in Kinds, s \in SrcSpan : stream' = Append(stream, Tok_new(k, s))
    /\ UNCHANGED <<toks, born, ret, out>>

\* the filter stage runs over what was emitted
FilterStage ==
    /\ ~out.filtered
    /\ out' = [filtered |-> TRUE, toks |-> Filter(stream)]
    /\ UNCHANGED <<toks, born, ret, stream>>

\* the next input: the pipeline starts over
Restart ==
    /\ out.filtered
    /\ stream' = <<>>
    /\ out' = [filtered |-> FALSE, toks |-> <<>>]
    /\ UNCHANGED <<toks, born, ret>>

NextFilter == Emit \/ FilterStage \/ Restart

SpecFilter == Init /\ [][NextFilter]_vars

-----------------------------------------------------------------------------
(* Properties                                                              *)

ReadOps == {"span", "kind", "loc", "is_keyword", "is_reserved", "keep", "fmt", "eq"}

(* C1: construction is faithful and lossless.  The token Tok::new(k, s)    *)
(* left in a slot answers kind() with a kind equal to k and span() with a  *)
(* span equal to s, and every later kind() and span() call on a token      *)
(* returns the kind and the span it was built with.                        *)
C1_ConstructionFaithful ==
    /\ ret.op = "new" =>
          /\ Kind_eq(Tok_kind(toks[ret.dst]), ret.kind)
          /\ SrcSpan_eq(Tok_span(toks[ret.dst]), ret.span)
    /\ ret.op = "kind" => Kind_eq(ret.val, born[ret.slot].kind)
    /\ ret.op = "span" => SrcSpan_eq(ret.val, born[ret.slot].span)

\* span() was called on a token built over a span whose start lies after its end
C1_Witness ==
    /\ ret.op = "span"
    /\ ret.val.start > ret.val.end
    /\ born[ret.slot].span = ret.val

(* C2: delegation equivalence.  t.is_keyword(), t.is_reserved() and        *)
(* t.keep() return what the same predicate of t.kind() returns.            *)
C2_DelegationEquivalence ==
    /\ ret.op = "is_keyword" =>
          ret.val = TokKind_is_keyword(Tok_kind(toks[ret.slot]))
    /\ ret.op = "is_reserved" =>
          ret.val = TokKind_is_reserved(Tok_kind(toks[ret.slot]))
    /\ ret.op = "keep" =>
          ret.val = TokKind_keep(Tok_kind(toks[ret.slot]))

\* is_reserved() returned false for a token whose kind answers is_keyword()
\* with true and keep() with false
C2_Witness ==
    /\ ret.op = "is_reserved"
    /\ ret.val = FALSE
    /\ TokKind_is_keyword(Tok_kind(toks[ret.slot]))
    /\ ~TokKind_keep(Tok_kind(toks[ret.slot]))

(* C3: location delegation is exact.  t.loc() returns the start location   *)
(* of t.span(), the location the span's own accessor returns.              *)
C3_LocIsSpanStart ==
    ret.op = "loc" => ret.val = SrcSpan_loc(Tok_span(toks[ret.slot]))

\* loc() was called on a token whose span starts and ends at different locations
C3_Witness ==
    /\ ret.op = "loc"
    /\ Tok_span(toks[ret.slot]).start # Tok_span(toks[ret.slot]).end

(* C4: token equality is reflexive, symmetric, transitive and exactly      *)
(* structural.  a == b returns true exactly when the kinds are equal and   *)
(* the spans are equal, whatever built the two tokens: same kind and       *)
(* different spans compare unequal, equal kinds and equal spans of         *)
(* separately built tokens compare equal.                                  *)
C4_EqualityStructural ==
    /\ ret.op = "eq" =>
          ret.val = ( /\ Kind_eq(born[ret.slot].kind, born[ret.other].kind)
                      /\ SrcSpan_eq(born[ret.slot].span, born[ret.other].span) )
    /\ \A i \in Slots : Live(i) => Tok_eq(toks[i], toks[i])
    /\ \A i, j \in Slots :
          (Live(i) /\ Live(j)) =>
              /\ Tok_eq(toks[i], toks[j]) = Tok_eq(toks[j], toks[i])
              /\ Tok_eq(toks[i], toks[j]) =
                    ( /\ Kind_eq(Tok_kind(toks[i]), Tok_kind(toks[j]))
                      /\ SrcSpan_eq(Tok_span(toks[i]), Tok_span(toks[j])) )
              /\ \A c \in Tokens :
                    (Tok_eq(toks[i], toks[j]) /\ Tok_eq(toks[j], c))
                        => Tok_eq(toks[i], c)

\* two tokens of the same kind over different spans were compared
C4_Witness ==
    /\ ret.op = "eq"
    /\ ret.slot # ret.other
    /\ Kind_eq(Tok_kind(toks[ret.slot]), Tok_kind(toks[ret.other]))
    /\ ~SrcSpan_eq(Tok_span(toks[ret.slot]), Tok_span(toks[ret.other]))
    /\ ret.val = FALSE

(* C5: rendering a token writes exactly what rendering its kind writes to  *)
(* the same formatter, with the same result, whatever the token's span.    *)
C5_DisplayIsKindDisplay ==
    ret.op = "fmt" =>
        /\ ret.val = Kind_fmt(Tok_kind(toks[ret.slot]), ret.f)
        /\ \A s \in SrcSpan :
              Tok_fmt(Tok_new(Tok_kind(toks[ret.slot]), s), ret.f) = ret.val

\* Keyword("if") over a span of two locations was rendered after "<"
C5_Witness ==
    /\ ret.op = "fmt"
    /\ Tok_span(toks[ret.slot]).start # Tok_span(toks[ret.slot]).end
    /\ ret.val.ok
    /\ ret.val.buf = "<if"

(* C6: immutability.  Whatever operations were called, a live token's kind *)
(* and span are those it was constructed with.                             *)
C6_Immutable ==
    \A i \in Slots :
        Live(i) =>
            /\ Tok_kind(toks[i]) = born[i].kind
            /\ Tok_span(toks[i]) = born[i].span

\* a read operation has just returned on a token whose span is not the
\* default span [1, 1]
C6_Witness ==
    /\ ret.op \in ReadOps
    /\ Live(ret.slot)
    /\ Tok_span(toks[ret.slot]) # [start |-> 1, end |-> 1]

(* C7: a clone equals its original, kind and span, and the two are         *)
(* independent: a slot's token changes only in a step that constructs,     *)
(* clones into or drops that very slot, never by an operation on another   *)
(* token or a read of its own.                                             *)
C7_CloneEqualIndependent ==
    /\ [](ret.op = "clone" =>
            /\ Live(ret.slot) /\ Live(ret.dst)
            /\ Tok_eq(toks[ret.dst], toks[ret.slot])
            /\ Kind_eq(Tok_kind(toks[ret.dst]), Tok_kind(toks[ret.slot]))
            /\ SrcSpan_eq(Tok_span(toks[ret.dst]), Tok_span(toks[ret.slot])))
    /\ [][\A i \in Slots :
             toks'[i] # toks[i] =>
                 (ret'.op \in {"new", "clone", "drop"} /\ ret'.dst = i)]_vars

\* a token was cloned into the other slot
C7_Witness ==
    /\ ret.op = "clone"
    /\ ret.slot # ret.dst
    /\ Live(ret.slot)
    /\ toks[ret.dst] = toks[ret.slot]

(* C8: the filter stage drops every token whose kind answers keep() with   *)
(* false and outputs all the others, unchanged and in their order: its     *)
(* output is the emitted stream with exactly those tokens removed.         *)
RECURSIVE KeptByKind(_)
KeptByKind(s) ==
    IF s = <<>> THEN <<>>
    ELSE (IF TokKind_keep(Tok_kind(Head(s))) THEN <<Head(s)>> ELSE <<>>)
             \o KeptByKind(Tail(s))

C8_FilterKeepsExactly ==
    out.filtered =>
        /\ out.toks = KeptByKind(stream)
        /\ \A n \in 1..Len(out.toks) : TokKind_keep(Tok_kind(out.toks[n]))
        /\ \A n \in 1..Len(stream) :
              ~TokKind_keep(Tok_kind(stream[n])) =>
                  \A m \in 1..Len(out.toks) : out.toks[m] # stream[n]

\* Keyword("if"), Comment("// x"), Identifier("x") were emitted and filtered:
\* the comment is gone, the keyword and the identifier remain in order
C8_Witness ==
    /\ out.filtered
    /\ Len(stream) = 3
    /\ Tok_kind(stream[1]).variant = "Keyword"
    /\ Tok_kind(stream[2]).variant = "Comment"
    /\ Tok_kind(stream[3]).variant = "Identifier"
    /\ out.toks = <<stream[1], stream[3]>>

(* C9, as claimed: Tok::new yields a token for every kind and span, and no *)
(* operation of the token has an error outcome.                            *)
C9_NoErrorOutcome ==
    /\ ret.op = "new" => toks[ret.dst] \in Tokens
    /\ ret.err = FALSE

(* C9, amended: Tok::new validates nothing and yields a token for every    *)
(* kind and span, ill-formed spans and inconsistent kinds included; span,  *)
(* kind, loc, is_keyword, is_reserved, keep, ==, clone have no error       *)
(* outcome; rendering returns the result of the kind's Display on the same *)
(* formatter, an error exactly when that returns one.                      *)
C9_NoValidationFmtErrOfKind ==
    /\ \A k \in Kinds, s \in SrcSpan : Tok_new(k, s) \in Tokens
    /\ ret.op = "new" =>
          /\ Live(ret.dst)
          /\ toks[ret.dst] \in Tokens
          /\ ~ret.err
    /\ ret.op \in (ReadOps \ {"fmt"}) \cup {"clone", "drop"} => ~ret.err
    /\ ret.op = "fmt" =>
          ret.err = ~Kind_fmt(Tok_kind(toks[ret.slot]), ret.f).ok

\* a token of the inconsistent kind was built over a span whose start lies
\* after its end
C9_Witness ==
    /\ ret.op = "new"
    /\ ret.span.start > ret.span.end
    /\ TokKind_is_keyword(ret.kind) /\ ~TokKind_is_reserved(ret.kind)
    /\ TokKind_is_comment(ret.kind) /\ TokKind_is_identifier(ret.kind)
    /\ toks[ret.dst] = [kind |-> ret.kind, span |-> ret.span]

(* C10: the classification queries depend on the kind alone.  Two tokens   *)
(* of equal kinds answer is_keyword(), is_reserved() and keep() alike      *)
(* whatever their spans, and an answer returned for a token is the answer  *)
(* for the same kind over every span.                                      *)
C10_ClassificationIgnoresSpan ==
    /\ \A i, j \in Slots :
          (Live(i) /\ Live(j) /\ Kind_eq(Tok_kind(toks[i]), Tok_kind(toks[j]))) =>
              /\ Tok_is_keyword(toks[i]) = Tok_is_keyword(toks[j])
              /\ Tok_is_reserved(toks[i]) = Tok_is_reserved(toks[j])
              /\ Tok_keep(toks[i]) = Tok_keep(toks[j])
    /\ \A s \in SrcSpan :
          LET t == IF ret.op \in {"is_keyword", "is_reserved", "keep"}
                   THEN Tok_new(Tok_kind(toks[ret.slot]), s) ELSE NoTok
          IN  /\ ret.op = "is_keyword" => ret.val = Tok_is_keyword(t)
              /\ ret.op = "is_reserved" => ret.val = Tok_is_reserved(t)
              /\ ret.op = "keep" => ret.val = Tok_keep(t)

\* keep() returned true for a token while the other slot holds a token of
\* the same kind over an ill-formed span
C10_Witness ==
    /\ ret.op = "keep"
    /\ ret.val = TRUE
    /\ \E j \in Slots :
          /\ j # ret.slot
          /\ Live(j)
          /\ Kind_eq(Tok_kind(toks[j]), Tok_kind(toks[ret.slot]))
          /\ Tok_span(toks[j]) # Tok_span(toks[ret.slot])
          /\ Tok_span(toks[j]).start > Tok_span(toks[j]).end

====
